---------------------------- MODULE Spec2Model ----------------------------
(***************************************************************************)
(* BulWise: the request pipeline and cost ledger of the Flask backend      *)
(* (src/app.py) and the per-browser rate limit of the Streamlit front end  *)
(* (src/bulwise_advisory_only.py).                                         *)
(*                                                                         *)
(* Units.  Money is counted in micro-dollars, so MONTHLY_BUDGET_CAP =      *)
(* 50.00 $ is 50000000 and the per-1000-token rates 0.003 $ and 0.015 $    *)
(* are 3000 and 15000.  Wall-clock months are numbered: month 0 is the     *)
(* month before the server run that is modelled, month 1 the month in     *)
(* which it starts.                                                        *)
(*                                                                         *)
(* Flask serves each request in its own thread (app.run, threaded by       *)
(* default), so the handlers of two workers interleave at every access to  *)
(* the cost file and at the provider call.  Reading and writing the cost   *)
(* file are each taken as one step.  The limiter of flask_limiter counts   *)
(* the /api/generate requests of a client before the handler runs; its     *)
(* window of one day expires independently of the month.                   *)
(***************************************************************************)
EXTENDS Integers, Sequences, FiniteSets, TLC

VARIABLES
    clock,      \* get_current_month(): the wall-clock month
    file,       \* cost_tracking.json: NoFile or the persisted ledger record
    rq,         \* per worker thread: the request it is handling
    nreq,       \* number of /api/generate requests accepted so far
    expected,   \* call counter of log_request: [n, total] of the calls completed
    hits,       \* limiter storage: requests counted in the client's current day window
    now,        \* Streamlit: datetime.now(), in days
    ss,         \* Streamlit: st.session_state of one browser session
    page,       \* Streamlit: the widgets the last script run left on the page
    run         \* Streamlit: the script run that is generating a report

fvars == <<clock, file, rq, nreq, expected, hits>>
svars == <<now, ss, page, run>>
vars == <<clock, file, rq, nreq, expected, hits, now, ss, page, run>>

(***************************************************************************)
(* Bounds of the model                                                     *)
(***************************************************************************)
MaxMonth == 2          \* the clock runs over months 1..MaxMonth
MaxRequests == 2       \* /api/generate requests per behaviour
MaxDay == 31           \* the Streamlit clock runs over days 0..MaxDay
MaxCount == 5          \* no further report is requested once the usage count is MaxCount

Workers == {"w1", "w2"}

(***************************************************************************)
(* Configuration, src/app.py:28-35                                         *)
(***************************************************************************)
MONTHLY_BUDGET_CAP == 50000000
COST_PER_1K_INPUT_TOKENS == 3000
COST_PER_1K_OUTPUT_TOKENS == 15000
MAX_QUERY_LENGTH == 2000
MAX_CONTEXT_LENGTH == 500

\* "3 per day", the limit of /api/generate, src/app.py:135
GENERATE_LIMIT == 3

(***************************************************************************)
(* The ledger                                                              *)
(***************************************************************************)
NoFile == [exists |-> FALSE]

Ledger(m, t, rs) == [exists |-> TRUE, month |-> m, total_cost |-> t, requests |-> rs]

\* one element of data["requests"]; of the timestamp only the month is kept
Entry(ts, i, o, c) == [timestamp |-> ts, input_tokens |-> i, output_tokens |-> o, cost |-> c]

RECURSIVE SumCosts(_)
SumCosts(rs) == IF rs = <<>> THEN 0 ELSE rs[1].cost + SumCosts(Tail(rs))

get_current_month == clock

FreshLedger(month) == Ledger(month, 0, <<>>)

load_cost_data_NoMonthCheck(f, month) ==
    IF ~f.exists THEN FreshLedger(month) ELSE f

load_cost_data_KeepsTotal(f, month) ==
    IF ~f.exists THEN FreshLedger(month)
    ELSE IF f.month # month THEN Ledger(month, f.total_cost, <<>>)
    ELSE f

load_cost_data(f, month) ==
    IF ~f.exists THEN FreshLedger(month)
    ELSE IF f.month # month THEN FreshLedger(month)
    ELSE f

save_cost_data(data) == data

calculate_cost_SwappedRates(input_tokens, output_tokens) ==
    LET input_cost == (input_tokens * COST_PER_1K_OUTPUT_TOKENS) \div 1000
        output_cost == (output_tokens * COST_PER_1K_INPUT_TOKENS) \div 1000
    IN  input_cost + output_cost

calculate_cost(input_tokens, output_tokens) ==
    LET input_cost == (input_tokens * COST_PER_1K_INPUT_TOKENS) \div 1000
        output_cost == (output_tokens * COST_PER_1K_OUTPUT_TOKENS) \div 1000
    IN  input_cost + output_cost

check_budget_AtMostCap(f, month) ==
    load_cost_data(f, month).total_cost <= MONTHLY_BUDGET_CAP

check_budget(f, month) ==
    load_cost_data(f, month).total_cost < MONTHLY_BUDGET_CAP

\* log_request lines 98-106: the entry is stamped, appended and charged
AppendOnly(data, stamp, input_tokens, output_tokens, cost) ==
    [data EXCEPT !.requests = Append(@, Entry(stamp, input_tokens, output_tokens, cost))]

PrependAndCharge(data, stamp, input_tokens, output_tokens, cost) ==
    [data EXCEPT !.requests = <<Entry(stamp, input_tokens, output_tokens, cost)>> \o @,
                 !.total_cost = @ + cost]

AppendAndCharge(data, stamp, input_tokens, output_tokens, cost) ==
    [data EXCEPT !.requests = Append(@, Entry(stamp, input_tokens, output_tokens, cost)),
                 !.total_cost = @ + cost]

(***************************************************************************)
(* Requests.  A query is kept as the lengths of its leading whitespace,    *)
(* of its core (first to last non-whitespace character) and of its         *)
(* trailing whitespace; context is the sequence of the lengths of its      *)
(* string values.  isobj is FALSE for a body that is no JSON object.       *)
(***************************************************************************)
Query(l, b, t) == [lead |-> l, body |-> b, trail |-> t]

QLen(q) == q.lead + q.body + q.trail

Strip(q) == Query(0, q.body, 0)

Request(ob, q, ctx) == [isobj |-> ob, query |-> q, context |-> ctx]

Requests ==
    { Request(TRUE, Query(0, 40, 0), <<>>),
      Request(TRUE, Query(1, 1998, 1), <<500>>),
      Request(TRUE, Query(0, 0, 0), <<>>),
      Request(TRUE, Query(3, 0, 0), <<20>>),
      Request(TRUE, Query(1, 1999, 1), <<>>),
      Request(TRUE, Query(0, 40, 0), <<20, 501>>),
      Request(FALSE, Query(0, 0, 0), <<>>) }

Valid == [ok |-> TRUE, msg |-> "none"]
Invalid(m) == [ok |-> FALSE, msg |-> m]

validate_input_NoStrip(data) ==
    IF QLen(data.query) > MAX_QUERY_LENGTH THEN Invalid("query_too_long")
    ELSE IF \E k \in 1..Len(data.context) : data.context[k] > MAX_CONTEXT_LENGTH
         THEN Invalid("context_too_long")
    ELSE IF QLen(data.query) = 0 THEN Invalid("query_empty")
    ELSE Valid

validate_input(data) ==
    IF QLen(data.query) > MAX_QUERY_LENGTH THEN Invalid("query_too_long")
    ELSE IF \E k \in 1..Len(data.context) : data.context[k] > MAX_CONTEXT_LENGTH
         THEN Invalid("context_too_long")
    ELSE IF QLen(Strip(data.query)) = 0 THEN Invalid("query_empty")
    ELSE Valid

(***************************************************************************)
(* What client.messages.create can do: return a message whose first        *)
(* content block carries text, return a message from which                 *)
(* message.content[0].text cannot be read (no content block, or a block    *)
(* without text), or raise RateLimitError or another APIError.  A message  *)
(* that is returned reports the tokens it consumed.                        *)
(***************************************************************************)
ProviderReturns == {"text", "no_text"}
ProviderRaises == {"rate_limit_error", "api_error"}

TokenUsages == { <<1000, 200>>, <<2000, 1000>> }

(***************************************************************************)
(* The state of a worker                                                   *)
(***************************************************************************)
NoData == [exists |-> FALSE]

Idle ==
    [op |-> "none", pc |-> "idle", req |-> Request(FALSE, Query(0, 0, 0), <<>>),
     budget |-> "unchecked", outcome |-> "none",
     input_tokens |-> 0, output_tokens |-> 0, cost |-> 0,
     data |-> NoData, status |-> 0, calls |-> 0, writes |-> 0, body |-> NoData,
     counted |-> FALSE, stages |-> <<>>]

\* The files an earlier run of the server can have left behind.  log_request
\* stores the cost it is passed, and a float total carries rounding, so the
\* totals of the boundary cases (10.00 $ in an old month, the cap less
\* 0.0001 $, the cap itself) are taken as given, each with a log that sums to it.
InitialFiles ==
    { NoFile,
      Ledger(0, 10000000, << Entry(0, 1000, 200, 10000000) >>),
      Ledger(1, 0, <<>>),
      Ledger(1, MONTHLY_BUDGET_CAP - 100, << Entry(1, 1000, 200, MONTHLY_BUDGET_CAP - 100) >>),
      Ledger(1, MONTHLY_BUDGET_CAP, << Entry(1, 1000, 200, MONTHLY_BUDGET_CAP) >>) }

FlaskInit ==
    /\ clock = 1
    /\ file \in InitialFiles
    /\ rq = [w \in Workers |-> Idle]
    /\ nreq = 0
    /\ expected = [n |-> Len(load_cost_data(file, 1).requests),
                   total |-> load_cost_data(file, 1).total_cost]
    /\ hits = 0

\* A worker at "done" holds a finished response.  Sending it (Return) touches
\* nothing but the worker itself and commutes with every other step, so it is
\* taken before any other step: no other step is taken while a response waits.
Answering == \E w \in Workers : rq[w].pc = "done"

(***************************************************************************)
(* generate_report, src/app.py:134-408                                     *)
(***************************************************************************)
\* The limiter of line 135 runs before the body of generate_report.  All
\* requests come from one remote address.  A request inside the limit is
\* counted in the client's window; one beyond it is answered by
\* ratelimit_handler (lines 462-467) and the body does not run.  The storage
\* counts the rejected request as well; a count beyond the limit behaves as
\* one at the limit and is kept as such.  The default limit of 100 per hour
\* (line 23) guards the other routes and is not reached by the requests of a
\* behaviour.
GenLimit(w) ==
    /\ ~Answering
    /\ rq[w].pc = "idle"
    /\ IF hits < GENERATE_LIMIT
         THEN /\ hits' = hits + 1
              /\ rq' = [rq EXCEPT ![w].op = "generate", ![w].counted = TRUE,
                                  ![w].stages = Append(@, "rate_limit"),
                                  ![w].pc = "validate"]
         ELSE /\ hits' = hits
              /\ rq' = [rq EXCEPT ![w].op = "generate",
                                  ![w].stages = Append(@, "rate_limit"),
                                  ![w].pc = "done", ![w].status = 429]
    /\ UNCHANGED <<clock, file, nreq, expected, svars>>

\* the day window of the limiter expires
LimiterExpire ==
    /\ ~Answering
    /\ hits > 0
    /\ hits' = 0
    /\ UNCHANGED <<clock, file, rq, nreq, expected, svars>>

\* lines 140-144, with the handlers of lines 403-408 for a body that
\* validate_input cannot read
GenValidate_NoReject(w) ==
    /\ ~Answering
    /\ rq[w].pc = "validate"
    /\ nreq < MaxRequests
    /\ \E r \in Requests :
         rq' = [rq EXCEPT ![w].req = r, ![w].stages = Append(@, "validation"),
                          ![w].pc = "budget"]
    /\ nreq' = nreq + 1
    /\ UNCHANGED <<clock, file, expected, hits, svars>>

GenValidate(w) ==
    /\ ~Answering
    /\ rq[w].pc = "validate"
    /\ \E r \in Requests :
         LET started == [rq EXCEPT ![w].req = r, ![w].stages = Append(@, "validation")]
         IN  IF ~r.isobj
               THEN /\ rq' = [started EXCEPT ![w].pc = "done", ![w].status = 500]
                    /\ nreq' = nreq
             ELSE IF ~validate_input(r).ok
               THEN /\ rq' = [started EXCEPT ![w].pc = "done", ![w].status = 400]
                    /\ nreq' = nreq
             ELSE /\ nreq < MaxRequests
                  /\ rq' = [started EXCEPT ![w].pc = "budget"]
                  /\ nreq' = nreq + 1
    /\ UNCHANGED <<clock, file, expected, hits, svars>>

GenCheckBudget_AlwaysOk(w) ==
    /\ ~Answering
    /\ rq[w].pc = "budget"
    /\ rq' = [rq EXCEPT ![w].budget = "ok", ![w].pc = "call",
                        ![w].stages = Append(@, "budget")]
    /\ UNCHANGED <<clock, file, nreq, expected, hits, svars>>

\* line 146
GenCheckBudget(w) ==
    /\ ~Answering
    /\ rq[w].pc = "budget"
    /\ rq' = IF check_budget(file, get_current_month)
               THEN [rq EXCEPT ![w].budget = "ok", ![w].pc = "call",
                               ![w].stages = Append(@, "budget")]
               ELSE [rq EXCEPT ![w].budget = "exceeded", ![w].pc = "denied",
                               ![w].stages = Append(@, "budget")]
    /\ UNCHANGED <<clock, file, nreq, expected, hits, svars>>

\* lines 147-152
GenBudgetDenied_Proceeds(w) ==
    /\ ~Answering
    /\ rq[w].pc = "denied"
    /\ rq' = [rq EXCEPT ![w].pc = "call"]
    /\ UNCHANGED <<clock, file, nreq, expected, hits, svars>>

GenBudgetDenied(w) ==
    /\ ~Answering
    /\ rq[w].pc = "denied"
    /\ rq' = [rq EXCEPT ![w].body = load_cost_data(file, get_current_month),
                        ![w].pc = "done", ![w].status = 503]
    /\ UNCHANGED <<clock, file, nreq, expected, hits, svars>>

\* lines 154-381 and the handlers of lines 396-408: the prompts are composed,
\* client.messages.create is called once, and what it returns or raises
\* decides how the request goes on
GenCallProvider(w) ==
    /\ ~Answering
    /\ rq[w].pc = "call"
    /\ LET called == [rq EXCEPT ![w].calls = @ + 1,
                                ![w].stages = @ \o <<"compose", "provider">>]
       IN  \/ \E u \in TokenUsages :
                rq' = [called EXCEPT ![w].outcome = "text",
                                    ![w].input_tokens = u[1], ![w].output_tokens = u[2],
                                    ![w].cost = calculate_cost(u[1], u[2]),
                                    ![w].stages = Append(@, "cost"),
                                    ![w].pc = "log"]
           \/ \E u \in TokenUsages :
                rq' = [called EXCEPT ![w].outcome = "no_text",
                                    ![w].input_tokens = u[1], ![w].output_tokens = u[2],
                                    ![w].pc = "done", ![w].status = 500]
           \/ rq' = [called EXCEPT ![w].outcome = "rate_limit_error",
                                   ![w].pc = "done", ![w].status = 429]
           \/ rq' = [called EXCEPT ![w].outcome = "api_error",
                                   ![w].pc = "done", ![w].status = 500]
    /\ UNCHANGED <<clock, file, nreq, expected, hits, svars>>

\* log_request line 96
LogLoad(w) ==
    /\ ~Answering
    /\ rq[w].pc = "log"
    /\ rq' = [rq EXCEPT ![w].data = load_cost_data(file, get_current_month),
                        ![w].pc = "save"]
    /\ UNCHANGED <<clock, file, nreq, expected, hits, svars>>

\* log_request lines 98-112 and the response of lines 384-394
LogSave(w) ==
    /\ ~Answering
    /\ rq[w].pc = "save"
    /\ LET data == AppendAndCharge(rq[w].data, clock, rq[w].input_tokens,
                                   rq[w].output_tokens, rq[w].cost)
       IN  /\ file' = save_cost_data(data)
           /\ rq' = [rq EXCEPT ![w].data = data, ![w].writes = @ + 1,
                               ![w].stages = Append(@, "record"),
                               ![w].body = data, ![w].pc = "done", ![w].status = 200]
    /\ expected' = [n |-> expected.n + 1, total |-> expected.total + rq[w].cost]
    /\ UNCHANGED <<clock, nreq, hits, svars>>

(***************************************************************************)
(* health_check and get_costs, src/app.py:410-427                          *)
(***************************************************************************)
HealthView(data) ==
    [exists |-> TRUE, month |-> data.month, total_cost |-> data.total_cost,
     requests_this_month |-> Len(data.requests)]

HealthCheck_SavesReset(w) ==
    /\ ~Answering
    /\ rq[w].pc = "idle"
    /\ rq' = [rq EXCEPT ![w].op = "health",
                        ![w].body = HealthView(load_cost_data(file, get_current_month)),
                        ![w].pc = "done", ![w].status = 200]
    /\ file' = save_cost_data(load_cost_data(file, get_current_month))
    /\ UNCHANGED <<clock, nreq, expected, hits, svars>>

HealthCheck(w) ==
    /\ ~Answering
    /\ rq[w].pc = "idle"
    /\ rq' = [rq EXCEPT ![w].op = "health",
                        ![w].body = HealthView(load_cost_data(file, get_current_month)),
                        ![w].pc = "done", ![w].status = 200]
    /\ UNCHANGED <<clock, file, nreq, expected, hits, svars>>

GetCosts(w) ==
    /\ ~Answering
    /\ rq[w].pc = "idle"
    /\ rq' = [rq EXCEPT ![w].op = "costs",
                        ![w].body = load_cost_data(file, get_current_month),
                        ![w].pc = "done", ![w].status = 200]
    /\ UNCHANGED <<clock, file, nreq, expected, hits, svars>>

\* the response has been sent; the thread takes the next request
Return(w) ==
    /\ rq[w].pc = "done"
    /\ rq' = [rq EXCEPT ![w] = Idle]
    /\ UNCHANGED <<clock, file, nreq, expected, hits, svars>>

\* the wall clock passes into the next month
Tick ==
    /\ ~Answering
    /\ clock < MaxMonth
    /\ clock' = clock + 1
    /\ UNCHANGED <<file, rq, nreq, expected, hits, svars>>

(***************************************************************************)
(* The Streamlit front end, src/bulwise_advisory_only.py.                  *)
(*                                                                         *)
(* Streamlit runs the whole script once per user action.  The page the     *)
(* user acts on is the one the last run rendered: a button can be pressed  *)
(* when that run rendered it enabled, and st.button returns True in the    *)
(* run its press starts.  A run that generates a report stays in the       *)
(* provider call while the clock moves on; every other run is one step.    *)
(***************************************************************************)
MAX_QUERIES_PER_MONTH == 3
WINDOW_DAYS == 30
max_retries == 3

NoUsage == [exists |-> FALSE]

Usage(c, d) == [exists |-> TRUE, count |-> c, reset_date |-> d]

\* lines 46-53: the id is made once per session and kept; the session has
\* none until the first call
NoBrowserId == "none"

NewBrowserId == "md5"

get_browser_id(s) ==
    IF s.browser_id = NoBrowserId THEN NewBrowserId ELSE s.browser_id

\* lines 55-76
get_usage_data(usage, t) ==
    LET u == IF ~usage.exists THEN Usage(0, t) ELSE usage
    IN  IF t > u.reset_date + WINDOW_DAYS THEN Usage(0, t) ELSE u

\* lines 78-83
increment_usage(usage, t) ==
    LET u == get_usage_data(usage, t)
    IN  [u EXCEPT !.count = @ + 1]

\* lines 85-93; usage is st.session_state.usage_data as the call leaves it
check_rate_limit(usage, t) ==
    LET u == get_usage_data(usage, t)
    IN  [allowed |-> u.count < MAX_QUERIES_PER_MONTH, count |-> u.count,
         next_reset |-> u.reset_date + WINDOW_DAYS, usage |-> u]

Blank(q) == QLen(Strip(q)) = 0

\* a + b for strings kept as Query
QConcat(a, b) ==
    IF Blank(a) /\ Blank(b) THEN Query(QLen(a) + QLen(b), 0, 0)
    ELSE IF Blank(a) THEN Query(QLen(a) + b.lead, b.body, b.trail)
    ELSE IF Blank(b) THEN Query(a.lead, a.body, a.trail + QLen(b))
    ELSE Query(a.lead, a.body + a.trail + b.lead + b.body, b.trail)

ExampleQuery == Query(0, 280, 0)

QueryEdits == { Query(0, 0, 0), Query(2, 0, 0), Query(0, 12, 0) }

\* "\n\nAdditional context: " and the joined clarifications, line 1612
AdditionalContext == Query(2, 30, 0)

\* lines 1583-1612
UserQuery(s) ==
    IF s.clarifying_answers THEN QConcat(s.initial_query, AdditionalContext)
    ELSE s.initial_query

\* What client.messages.create does on the successive calls of one run: it
\* returns a message ("ok"), raises an APIError whose text names an overload
\* ("overloaded"), raises another APIError such as an authentication failure
\* or a malformed request ("api_error"), or raises something that is no
\* APIError ("unexpected").  The behaviours carry one call more than the loop
\* can make.
ProviderScripts ==
    { << "ok" >>,
      << "overloaded", "ok" >>,
      << "overloaded", "overloaded", "ok" >>,
      << "overloaded", "overloaded", "overloaded", "ok" >>,
      << "api_error", "ok" >>,
      << "overloaded", "api_error", "ok" >>,
      << "unexpected", "ok" >> }

\* script is what the provider will do on the calls still to come, plan the
\* whole of it; rate_limit_hit is that column of the row log_query wrote
NoRun == [pc |-> "idle", retry_count |-> 0, calls |-> 0, allowed |-> FALSE,
          query_count |-> 0, error |-> "none", script |-> <<>>, plan |-> <<>>,
          rate_limit_hit |-> FALSE]

Page(st, ce, ge, shown, ans) ==
    [step |-> st, continue_enabled |-> ce, generate_enabled |-> ge,
     report_shown |-> shown, answers |-> ans]

ReportShown(s) == s.generated_report = "text"

\* One run of the script over session state s at time t, up to the buttons
\* of the current step: what it leaves in session state and on the page.
\* answers is the state of the step 2 widgets (is any of them filled in).
Render(s, t, answers) ==
    IF s.workflow_step = 1 THEN
        [ss |-> s,
         page |-> Page(1, ~Blank(s.initial_query), FALSE, ReportShown(s), FALSE)]
    ELSE IF s.workflow_step = 2 THEN
        [ss |-> [s EXCEPT !.clarifying_answers = answers],
         page |-> Page(2, FALSE, FALSE, ReportShown(s), answers)]
    ELSE
        LET rl == check_rate_limit(s.usage_data, t)
        IN  [ss |-> [s EXCEPT !.usage_data = rl.usage,
                              !.browser_id = get_browser_id(s)],
             page |-> Page(3, FALSE, rl.allowed /\ ~Blank(UserQuery(s)),
                           ReportShown(s), FALSE)]

StreamlitInit ==
    /\ now = 0
    /\ ss = [workflow_step |-> 1, initial_query |-> Query(0, 0, 0),
             clarifying_answers |-> FALSE, usage_data |-> NoUsage,
             generated_report |-> "none", report_query |-> "none",
             browser_id |-> NoBrowserId,
             feedback_given |-> FALSE, show_feedback_form |-> FALSE]
    /\ page = Page(1, FALSE, FALSE, FALSE, FALSE)
    /\ run = NoRun

\* the run started by a press, the st.rerun() that follows it included
Rerendered(s, answers) ==
    /\ ss' = Render(s, now, answers).ss
    /\ page' = Render(s, now, answers).page
    /\ UNCHANGED <<now, run>>

\* lines 1377-1395
ExampleClick ==
    /\ run.pc = "idle" /\ page.step = 1
    /\ Rerendered([ss EXCEPT !.initial_query = ExampleQuery], FALSE)
    /\ UNCHANGED fvars

\* lines 1400-1410
EditQuery ==
    /\ run.pc = "idle" /\ page.step = 1
    /\ \E q \in QueryEdits :
         /\ q # ss.initial_query
         /\ Rerendered([ss EXCEPT !.initial_query = q], FALSE)
    /\ UNCHANGED fvars

ContinueStep1_AlwaysEnabled ==
    /\ run.pc = "idle" /\ page.step = 1
    /\ Rerendered([ss EXCEPT !.workflow_step = 2], FALSE)
    /\ UNCHANGED fvars

\* lines 1417-1426
ContinueStep1 ==
    /\ run.pc = "idle" /\ page.step = 1 /\ page.continue_enabled
    /\ Rerendered([ss EXCEPT !.workflow_step = 2], FALSE)
    /\ UNCHANGED fvars

\* the widgets of step 2 and line 1540
EditAnswers ==
    /\ run.pc = "idle" /\ page.step = 2
    /\ Rerendered(ss, ~page.answers)
    /\ UNCHANGED fvars

\* lines 1540, 1565-1567
BackStep2 ==
    /\ run.pc = "idle" /\ page.step = 2
    /\ Rerendered([ss EXCEPT !.clarifying_answers = page.answers,
                             !.workflow_step = 1], FALSE)
    /\ UNCHANGED fvars

\* lines 1540, 1570-1573
SkipAll ==
    /\ run.pc = "idle" /\ page.step = 2
    /\ Rerendered([ss EXCEPT !.clarifying_answers = FALSE,
                             !.workflow_step = 3], FALSE)
    /\ UNCHANGED fvars

\* lines 1540, 1576-1578
ContinueStep2 ==
    /\ run.pc = "idle" /\ page.step = 2
    /\ Rerendered([ss EXCEPT !.clarifying_answers = page.answers,
                             !.workflow_step = 3], FALSE)
    /\ UNCHANGED fvars

\* lines 1620-1622
EditRequest ==
    /\ run.pc = "idle" /\ page.step = 3
    /\ Rerendered([ss EXCEPT !.workflow_step = 1], FALSE)
    /\ UNCHANGED fvars

\* A press of "Generate Advisory": lines 1583-1657.  The run evaluates
\* check_rate_limit and renders the button with its own disabled flag, but
\* what lets it generate is the press and a non-blank query (line 1653).
GenerateClick ==
    /\ run.pc = "idle" /\ page.step = 3 /\ page.generate_enabled
    /\ ss.usage_data.exists => ss.usage_data.count < MaxCount
    /\ LET r == Render(ss, now, FALSE)
           rl == check_rate_limit(ss.usage_data, now)
       IN  /\ ss' = r.ss
           /\ page' = r.page
           /\ IF ~Blank(UserQuery(ss))
                THEN \E sc \in ProviderScripts :
                        run' = [NoRun EXCEPT !.pc = "calling", !.allowed = rl.allowed,
                                            !.query_count = rl.count,
                                            !.script = sc, !.plan = sc]
                ELSE run' = NoRun
    /\ UNCHANGED <<now, fvars>>

\* One pass of the retry loop, lines 1958-1988, and the handlers of lines
\* 2040-2056.  looping is the condition of the while, retry says of a call
\* that raised whether the loop goes round again.
AttemptStep(looping, retry) ==
    /\ run.pc = "calling"
    /\ LET outcome == Head(run.script)
           called == [run EXCEPT !.calls = @ + 1, !.script = Tail(@)]
       IN  run' = IF ~looping
                    THEN [run EXCEPT !.pc = "failed", !.error = "no_message"]
                  ELSE IF outcome = "ok"
                    THEN [called EXCEPT !.pc = "post"]
                  ELSE IF retry
                    THEN [called EXCEPT !.retry_count = @ + 1]
                  ELSE [called EXCEPT !.pc = "failed", !.error = outcome]
    /\ UNCHANGED <<now, ss, page, fvars>>

ProviderAttempt_GivesUpEarly ==
    AttemptStep(run.retry_count < max_retries,
                Head(run.script) = "overloaded" /\ run.retry_count < max_retries - 2)

ProviderAttempt_Unbounded ==
    AttemptStep(TRUE, Head(run.script) = "overloaded")

ProviderAttempt_RetriesAnyError ==
    AttemptStep(run.retry_count < max_retries,
                Head(run.script) \in {"overloaded", "api_error"}
                    /\ run.retry_count < max_retries - 1)

ProviderAttempt ==
    AttemptStep(run.retry_count < max_retries,
                Head(run.script) = "overloaded" /\ run.retry_count < max_retries - 1)

\* lines 1990-2036: the report is stored, log_query reads the usage data and
\* writes its row with rate_limit_hit = not allowed (lines 250-261), and
\* increment_usage counts the report
GenFinish ==
    /\ run.pc = "post"
    /\ LET rl == check_rate_limit(ss.usage_data, now)
       IN  /\ \E text \in {"text", "empty"} :
                ss' = [ss EXCEPT !.generated_report = text,
                                 !.report_query = "user_query",
                                 !.browser_id = get_browser_id(ss),
                                 !.usage_data = increment_usage(rl.usage, now)]
           /\ run' = [run EXCEPT !.pc = "done", !.rate_limit_hit = ~rl.allowed]
    /\ page' = [page EXCEPT !.report_shown = ReportShown(ss')]
    /\ UNCHANGED <<now, fvars>>

\* the run ends; the page it rendered waits for the next user action
RunEnd ==
    /\ run.pc \in {"done", "failed"}
    /\ run' = NoRun
    /\ UNCHANGED <<now, ss, page, fvars>>

\* a press of a download button under the report, or of a feedback button
\* that the run of the press no longer handles, lines 2063-2130
ReportButtonClick ==
    /\ run.pc = "idle" /\ page.report_shown
    /\ Rerendered(ss, page.answers)
    /\ UNCHANGED fvars

\* The run of a press under the report first runs the branch of the current
\* step (lines 1353-1650), then the handler of the button; flags is what the
\* handler assigns, and the run ends without st.rerun().
FeedbackPress(given, show) ==
    /\ run.pc = "idle" /\ page.report_shown
    /\ LET r == Render(ss, now, page.answers)
       IN  /\ ss' = [r.ss EXCEPT !.browser_id = get_browser_id(r.ss),
                                 !.feedback_given = given,
                                 !.show_feedback_form = show]
           /\ page' = r.page
    /\ UNCHANGED <<now, run, fvars>>

\* lines 2142-2145
FeedbackYes ==
    /\ ~ss.feedback_given
    /\ FeedbackPress(TRUE, ss.show_feedback_form)

\* lines 2148-2149
FeedbackNo ==
    /\ ~ss.show_feedback_form /\ ~ss.feedback_given
    /\ FeedbackPress(ss.feedback_given, TRUE)

\* lines 2152-2163: the form is there while show_feedback_form is set and
\* feedback_given is not
SubmitFeedback ==
    /\ ss.show_feedback_form /\ ~ss.feedback_given
    /\ FeedbackPress(TRUE, FALSE)

\* what the handler of lines 2166-2177 leaves of session state s; a deleted
\* key reads as its default
ClearedForAnother(s) ==
    [s EXCEPT !.workflow_step = 1, !.initial_query = Query(0, 0, 0),
              !.clarifying_answers = FALSE,
              !.generated_report = "none", !.report_query = "none",
              !.feedback_given = FALSE, !.show_feedback_form = FALSE]

GenerateAnother_NewSession ==
    /\ run.pc = "idle" /\ page.report_shown
    /\ Rerendered([ClearedForAnother(Render(ss, now, page.answers).ss)
                      EXCEPT !.usage_data = NoUsage, !.browser_id = NoBrowserId],
                  FALSE)
    /\ UNCHANGED fvars

\* lines 2166-2178, after the branch of the current step has run
GenerateAnother ==
    /\ run.pc = "idle" /\ page.report_shown
    /\ Rerendered(ClearedForAnother(Render(ss, now, page.answers).ss), FALSE)
    /\ UNCHANGED fvars

\* time passes, also while a run waits for the provider or sleeps
TickDay ==
    /\ \E d \in {1, WINDOW_DAYS} :
         /\ now + d <= MaxDay
         /\ now' = now + d
    /\ UNCHANGED <<ss, page, run, fvars>>

(***************************************************************************)
(* validate_report_quality, src/bulwise_advisory_only.py:963-1062, and the *)
(* display of the stored report that calls it (lines 2063-2073).  Of a     *)
(* report text the function reads: which required section names occur in   *)
(* it (mentioned), which of them head a section, as a line "## NAME"       *)
(* (headed), how many tool mentions and URLs it has, and of the headed     *)
(* sections the length of the summary, whether the financial analysis has  *)
(* a "$" and the word "month", how many "Phase n" the roadmap has and      *)
(* whether the risk assessment speaks of mitigation.                       *)
(***************************************************************************)
required_sections ==
    << "EXECUTIVE SUMMARY", "STRATEGIC RECOMMENDATIONS", "IMPLEMENTATION ROADMAP",
       "FINANCIAL ANALYSIS", "RISK ASSESSMENT" >>

SectionNames == { required_sections[k] : k \in 1..Len(required_sections) }

Counts == {0, 2, 3}

ReportText(m, h, tools, urls, len, dollar, month, phases, mitigation) ==
    [mentioned |-> m, headed |-> h, tool_count |-> tools, url_count |-> urls,
     exec_summary_len |-> len, dollar |-> dollar, month |-> month,
     phase_count |-> phases, mitigation |-> mitigation]

\* The report texts that are validated.  A name can head a section without
\* occurring in the text: line 1015 takes every "## " out of the heading, so
\* the line "## EXECUTIVE ## SUMMARY" heads the section EXECUTIVE SUMMARY.
\* What a section holds is told apart only where the section is there.
ReportTexts ==
    { r \in [mentioned : SUBSET SectionNames, headed : SUBSET SectionNames,
             tool_count : Counts, url_count : Counts,
             exec_summary_len : {199, 200}, dollar : BOOLEAN, month : BOOLEAN,
             phase_count : Counts, mitigation : BOOLEAN] :
        /\ "EXECUTIVE SUMMARY" \notin r.headed => r.exec_summary_len = 200
        /\ "FINANCIAL ANALYSIS" \notin r.headed => (r.dollar /\ r.month)
        /\ "IMPLEMENTATION ROADMAP" \notin r.headed => r.phase_count = 3
        /\ "RISK ASSESSMENT" \notin r.headed => r.mitigation }

Message(text, n) == [msg |-> text, n |-> n]

\* lines 969-1062, with the least score that line 1060 lets through
Validated(report_text, least) ==
    LET \* lines 982-989
        missing_sections ==
            SelectSeq(required_sections, LAMBDA x : x \notin report_text.mentioned)
        score1 == 100 - 15 * Len(missing_sections)
        issues1 == IF Len(missing_sections) > 0
                     THEN << Message("Missing critical sections", Len(missing_sections)) >>
                     ELSE << >>
        \* lines 992-1000
        tool_count == report_text.tool_count
        url_count == report_text.url_count
        score2 == IF tool_count = 0 THEN score1 - 20
                  ELSE IF tool_count < 3 THEN score1 - 5 ELSE score1
        issues2 == IF tool_count = 0
                     THEN Append(issues1, Message("No tools recommended", 0))
                     ELSE issues1
        warnings2 == IF tool_count # 0 /\ tool_count < 3
                       THEN << Message("tools recommended", tool_count) >>
                       ELSE << >>
        \* lines 1002-1004
        urls == tool_count > 0 /\ url_count < tool_count
        score3 == IF urls THEN score2 - 10 ELSE score2
        warnings3 == IF urls
                       THEN Append(warnings2, Message("tools missing URLs", tool_count - url_count))
                       ELSE warnings2
        \* lines 1024-1028
        brief == /\ "EXECUTIVE SUMMARY" \in report_text.headed
                 /\ report_text.exec_summary_len < 200
        score4 == IF brief THEN score3 - 5 ELSE score3
        warnings4 == IF brief
                       THEN Append(warnings3, Message("Executive Summary too brief",
                                                      report_text.exec_summary_len))
                       ELSE warnings3
        \* lines 1031-1040
        financial == "FINANCIAL ANALYSIS" \in report_text.headed
        nocost == financial /\ ~report_text.dollar
        nomonth == financial /\ ~report_text.month
        score5 == IF nocost THEN score4 - 10 ELSE score4
        issues5 == IF nocost
                     THEN Append(issues2, Message("Financial Analysis missing specific costs", 0))
                     ELSE issues2
        score6 == IF nomonth THEN score5 - 5 ELSE score5
        warnings6 == IF nomonth
                       THEN Append(warnings4, Message("Financial Analysis missing monthly breakdown", 0))
                       ELSE warnings4
        \* lines 1043-1050
        roadmap == "IMPLEMENTATION ROADMAP" \in report_text.headed
        phase_count == report_text.phase_count
        score7 == IF roadmap /\ phase_count = 0 THEN score6 - 5 ELSE score6
        warnings7 == IF roadmap /\ phase_count = 0
                       THEN Append(warnings6, Message("Implementation Roadmap missing phase structure", 0))
                     ELSE IF roadmap /\ phase_count < 3
                       THEN Append(warnings6, Message("phases", phase_count))
                     ELSE warnings6
        \* lines 1053-1057
        risk == "RISK ASSESSMENT" \in report_text.headed /\ ~report_text.mitigation
        score8 == IF risk THEN score7 - 5 ELSE score7
        warnings8 == IF risk
                       THEN Append(warnings7, Message("Risk Assessment missing mitigation strategies", 0))
                       ELSE warnings7
    IN  \* lines 1060-1062
        [score |-> IF least > score8 THEN least ELSE score8,
         issues |-> issues5, warnings |-> warnings8]

validate_report_quality_NoFloor(report_text) == Validated(report_text, -100)

validate_report_quality(report_text) == Validated(report_text, 0)

\* A session that holds a stored report: the state in which a run reaches
\* the display section.  Here generated_report is the text itself, by what
\* validate_report_quality reads of it.
QualityInit ==
    /\ clock = 1 /\ file = NoFile /\ rq = [w \in Workers |-> Idle]
    /\ nreq = 0 /\ expected = [n |-> 0, total |-> 0] /\ hits = 0
    /\ now = 0 /\ run = NoRun
    /\ \E r \in ReportTexts :
         ss = [workflow_step |-> 3, initial_query |-> Query(0, 12, 0),
               clarifying_answers |-> FALSE, usage_data |-> Usage(1, 0),
               generated_report |-> r, report_query |-> "user_query",
               browser_id |-> NewBrowserId,
               feedback_given |-> FALSE, show_feedback_form |-> FALSE]
    /\ page = Page(3, FALSE, TRUE, FALSE, FALSE)

\* lines 2063-2073: the report is displayed under the badge of its quality
DisplayReport ==
    /\ run.pc = "idle" /\ ~page.report_shown
    /\ page' = [step |-> page.step, continue_enabled |-> page.continue_enabled,
                generate_enabled |-> page.generate_enabled,
                report_shown |-> TRUE, answers |-> page.answers,
                quality |-> validate_report_quality(ss.generated_report)]
    /\ UNCHANGED <<now, ss, run, fvars>>

(***************************************************************************)
(* Specifications                                                          *)
(***************************************************************************)
FlaskNext ==
    \/ \E w \in Workers : GenLimit(w)
    \/ LimiterExpire
    \/ \E w \in Workers : GenValidate(w)
    \/ \E w \in Workers : GenCheckBudget(w)
    \/ \E w \in Workers : GenBudgetDenied(w)
    \/ \E w \in Workers : GenCallProvider(w)
    \/ \E w \in Workers : LogLoad(w)
    \/ \E w \in Workers : LogSave(w)
    \/ \E w \in Workers : HealthCheck(w)
    \/ \E w \in Workers : GetCosts(w)
    \/ \E w \in Workers : Return(w)
    \/ Tick

\* the Flask backend, with no Streamlit session acting
FlaskStart == FlaskInit /\ StreamlitInit

FlaskSpec == FlaskStart /\ [][FlaskNext]_vars

\* the limiter and the entry of generate_report when the server takes one
\* generate request at a time: a request is admitted only when no other
\* generate request is being handled
GenLimitSerial(w) ==
    /\ \A v \in Workers : rq[v].op # "generate"
    /\ GenLimit(w)

SerialNext ==
    \/ \E w \in Workers : GenLimitSerial(w)
    \/ LimiterExpire
    \/ \E w \in Workers : GenValidate(w)
    \/ \E w \in Workers : GenCheckBudget(w)
    \/ \E w \in Workers : GenBudgetDenied(w)
    \/ \E w \in Workers : GenCallProvider(w)
    \/ \E w \in Workers : LogLoad(w)
    \/ \E w \in Workers : LogSave(w)
    \/ \E w \in Workers : HealthCheck(w)
    \/ \E w \in Workers : GetCosts(w)
    \/ \E w \in Workers : Return(w)
    \/ Tick

\* the Flask backend handling its generate requests one after the other
SerialSpec == FlaskStart /\ [][SerialNext]_vars

\* the display of a stored report, for every report text of ReportTexts
QualityNext == DisplayReport

QualitySpec == QualityInit /\ [][QualityNext]_vars

StreamlitNext ==
    \/ ExampleClick
    \/ EditQuery
    \/ ContinueStep1
    \/ EditAnswers
    \/ BackStep2
    \/ SkipAll
    \/ ContinueStep2
    \/ EditRequest
    \/ GenerateClick
    \/ ProviderAttempt
    \/ GenFinish
    \/ RunEnd
    \/ ReportButtonClick
    \/ FeedbackYes
    \/ FeedbackNo
    \/ SubmitFeedback
    \/ GenerateAnother
    \/ TickDay

\* one Streamlit session, with no Flask request in flight
StreamlitStart ==
    /\ clock = 1 /\ file = NoFile /\ rq = [w \in Workers |-> Idle]
    /\ nreq = 0 /\ expected = [n |-> 0, total |-> 0] /\ hits = 0
    /\ StreamlitInit

StreamlitSpec == StreamlitStart /\ [][StreamlitNext]_vars

\* The backend and the front end are separate programs that share no state:
\* a behaviour of the two together is a run of the one while the other rests
\* in its initial state.
FlaskQuiet ==
    /\ clock = 1 /\ file = NoFile /\ rq = [w \in Workers |-> Idle]
    /\ nreq = 0 /\ expected = [n |-> 0, total |-> 0] /\ hits = 0

SystemNext ==
    \/ StreamlitInit /\ FlaskNext
    \/ FlaskQuiet /\ StreamlitNext

SystemSpec == FlaskStart /\ [][SystemNext]_vars


(***************************************************************************)
(* Properties of the Flask backend, checked under FlaskSpec                *)
(***************************************************************************)
Rejected(w) ==
    /\ rq[w].op = "generate" /\ rq[w].pc = "done"
    /\ rq[w].req.isobj /\ ~validate_input(rq[w].req).ok

\* C1: a request on which validate_input returns invalid is answered with
\* 400, has made no provider call, has not reached the budget check and has
\* written nothing to the cost file.
C1_InvalidRejected ==
    \A w \in Workers :
        Rejected(w) => /\ rq[w].status = 400
                       /\ rq[w].calls = 0
                       /\ rq[w].writes = 0
                       /\ rq[w].budget = "unchecked"

C1_Witness ==
    \E w \in Workers :
        /\ Rejected(w) /\ rq[w].status = 400
        /\ validate_input(rq[w].req).msg = "query_empty"
        /\ file.exists /\ Len(file.requests) > 0

\* C2: while the month does not change and no log_request is between its
\* load and its save, the persisted total is the total before the first call
\* plus the costs of all log_request calls made, and the log has one entry
\* per call.
C2_NoLostUpdate ==
    (clock = 1 /\ \A w \in Workers : rq[w].pc # "save")
        => LET cur == load_cost_data(file, clock)
           IN  /\ cur.total_cost = expected.total
               /\ Len(cur.requests) = expected.n

CurrentMonthTotal == IF file.exists /\ file.month = clock THEN file.total_cost ELSE 0

BudgetStep(w) == rq[w].pc = "budget" /\ rq'[w].pc # "budget"

\* C3: the budget check of a request passes if and only if the total of the
\* current month is strictly below MONTHLY_BUDGET_CAP.
C3_BudgetGate ==
    [][\A w \in Workers :
          BudgetStep(w) =>
              (rq'[w].budget = "ok" <=> CurrentMonthTotal < MONTHLY_BUDGET_CAP)]_vars

C3_Witness ==
    \E w \in Workers :
        /\ rq[w].pc = "denied" /\ rq[w].budget = "exceeded"
        /\ file.exists /\ file.month = clock
        /\ file.total_cost = MONTHLY_BUDGET_CAP

\* C4: a request whose budget check failed is answered with 503, has made
\* no provider call and has written nothing to the cost file.
C4_BudgetDenied ==
    \A w \in Workers :
        (rq[w].op = "generate" /\ rq[w].budget = "exceeded")
            => /\ rq[w].calls = 0
               /\ rq[w].writes = 0
               /\ rq[w].pc \in {"denied", "done"}
               /\ rq[w].pc = "done" => rq[w].status = 503

C4_Witness ==
    \E w \in Workers :
        /\ rq[w].op = "generate" /\ rq[w].pc = "done"
        /\ rq[w].budget = "exceeded" /\ rq[w].status = 503
        /\ rq[w].body.total_cost >= MONTHLY_BUDGET_CAP

Consistent(d) == d.exists => d.total_cost = SumCosts(d.requests)

\* C5: the total_cost of the persisted record, of the ledger of the current
\* month and of every record a request holds equals the sum of the costs in
\* its request log.
C5_TotalIsSumOfLog ==
    /\ Consistent(file)
    /\ Consistent(load_cost_data(file, clock))
    /\ \A w \in Workers : Consistent(rq[w].data)

C5_Witness ==
    /\ file.exists /\ file.month = 2 /\ Len(file.requests) >= 2
    /\ file.requests[1].cost # file.requests[2].cost

Stale == file.exists /\ file.month # clock

LoadStep(w) == rq[w].pc = "log" /\ rq'[w].pc = "save"

DeniedStep(w) == rq[w].pc = "denied" /\ rq'[w].pc = "done"

HealthStep(w) == rq[w].pc = "idle" /\ rq'[w].op = "health"

CostsStep(w) == rq[w].pc = "idle" /\ rq'[w].op = "costs"

\* C6: every access to the ledger (the budget check, the load of
\* log_request, the load of the 503 answer, health_check, get_costs) works on
\* a record of the current month, and on the empty record of the current
\* month when the persisted record carries another month.
C6_RolloverOnEveryAccess ==
    [][\A w \in Workers :
          /\ LoadStep(w) => /\ rq'[w].data.month = clock
                            /\ Stale => rq'[w].data = FreshLedger(clock)
          /\ (DeniedStep(w) \/ CostsStep(w))
                => /\ rq'[w].body.month = clock
                   /\ Stale => rq'[w].body = FreshLedger(clock)
          /\ HealthStep(w) => /\ rq'[w].body.month = clock
                              /\ Stale => /\ rq'[w].body.total_cost = 0
                                          /\ rq'[w].body.requests_this_month = 0
          /\ (BudgetStep(w) /\ Stale) => rq'[w].budget = "ok"]_vars

C6_Witness ==
    \E w \in Workers :
        /\ rq[w].op = "costs" /\ rq[w].pc = "done"
        /\ clock = 2 /\ file.exists /\ file.month = 1 /\ file.total_cost > 0
        /\ rq[w].body = FreshLedger(2)

ReadStep(w) == HealthStep(w) \/ CostsStep(w) \/ BudgetStep(w)

\* what a read of a stale record returns: the empty ledger of the current month
ReadsFresh(w) ==
    /\ (HealthStep(w) \/ CostsStep(w))
          => rq'[w].body.month = clock /\ rq'[w].body.total_cost = 0
    /\ BudgetStep(w) => rq'[w].budget = "ok"

SaveStep(w) == rq[w].pc = "save" /\ rq'[w].pc = "done"

\* C7 as stated: a read (health_check, get_costs, check_budget) of a ledger with an older month key yields total 0
\* and the new month key, and after the read the durable record holds the
\* new month key and total_cost 0.
C7_ResetPersists ==
    [][\A w \in Workers :
          (ReadStep(w) /\ Stale)
              => /\ ReadsFresh(w)
                 /\ file'.exists /\ file'.month = clock /\ file'.total_cost = 0]_vars

\* C7 as amended: a read of a ledger with an older month key yields total 0
\* and the new month key and leaves the durable record as it was; the durable
\* record takes the month key of the ledger that log_request loaded when
\* log_request saves.
C7_ResetOnReadOnly ==
    [][\A w \in Workers :
          /\ (ReadStep(w) /\ Stale)
                => /\ ReadsFresh(w)
                   /\ file' = file
          /\ SaveStep(w) => /\ file'.exists /\ file'.month = rq[w].data.month
                            /\ file'.total_cost = rq[w].data.total_cost + rq[w].cost]_vars

C7_Witness ==
    \E w \in Workers :
        /\ rq[w].op = "health" /\ rq[w].pc = "done"
        /\ clock = 1 /\ file.exists /\ file.month = 0 /\ file.total_cost = 10000000
        /\ rq[w].body.month = 1 /\ rq[w].body.total_cost = 0

\* C8: a request whose provider call returned a message has written its
\* ledger entry by the time it is answered.
C8_CostRecordedAfterProviderReturn ==
    \A w \in Workers :
        (rq[w].op = "generate" /\ rq[w].pc = "done" /\ rq[w].outcome \in ProviderReturns)
            => /\ rq[w].writes = 1
               /\ rq[w].data.exists
               /\ rq[w].data.requests[Len(rq[w].data.requests)].cost
                      = calculate_cost(rq[w].input_tokens, rq[w].output_tokens)

(***************************************************************************)
(* Properties of the Streamlit rate limit, checked under StreamlitSpec     *)
(***************************************************************************)
\* C9: a request is allowed exactly when its check finds fewer than
\* MAX_QUERIES_PER_MONTH reports counted in the current window (the 1st to
\* 3rd of a window, and the first after the window expired, which finds the
\* count restarted), and a request that is not allowed generates no report
\* (the 4th of a window is denied).
C9_RateLimitBoundary ==
    /\ run.pc # "idle" => (run.allowed <=> run.query_count < MAX_QUERIES_PER_MONTH)
    /\ run.pc \in {"calling", "post"} => run.allowed

\* C10: while the window of the stored usage data is unexpired, its count is
\* at most MAX_QUERIES_PER_MONTH.
C10_CountWithinCeiling ==
    (ss.usage_data.exists /\ ~(now > ss.usage_data.reset_date + WINDOW_DAYS))
        => ss.usage_data.count <= MAX_QUERIES_PER_MONTH

(***************************************************************************)
(* Properties of the provider calls                                        *)
(***************************************************************************)
\* the limiter turned the request away: ratelimit_handler answered it
Limited(w) == rq[w].op = "generate" /\ rq[w].pc = "done" /\ ~rq[w].counted

\* C11: a request that finds its client at the ceiling makes no provider
\* call: a Streamlit run whose check_rate_limit returned allowed = False never
\* calls client.messages.create, and a Flask request that the limiter turned
\* away is answered 429 without a call.
C11_DeniedWithoutProviderCall ==
    /\ (run.pc # "idle" /\ ~run.allowed) => run.calls = 0
    /\ \A w \in Workers : Limited(w) => (rq[w].calls = 0 /\ rq[w].status = 429)

Overloads(n) == [k \in 1..n |-> "overloaded"]

\* the provider's behaviour starts with the outcomes of prefix
StartsWith(plan, prefix) ==
    Len(plan) >= Len(prefix) /\ SubSeq(plan, 1, Len(prefix)) = prefix

LoopLeft == run.pc \in {"post", "done", "failed"}

\* C12: a run for which the provider raises a transient overload twice and
\* then returns a message leaves the retry loop with that message after
\* exactly 3 calls and with no error, and ends with the report stored.
C12_SuccessAfterTwoOverloads ==
    (LoopLeft /\ StartsWith(run.plan, Overloads(2) \o << "ok" >>))
        => /\ run.pc \in {"post", "done"}
           /\ run.calls = 3
           /\ run.error = "none"
           /\ run.pc = "done" => ss.generated_report \in {"text", "empty"}

C12_Witness ==
    /\ run.pc = "done" /\ run.plan = Overloads(2) \o << "ok" >>
    /\ run.calls = 3 /\ run.retry_count = 2 /\ run.error = "none"
    /\ ss.generated_report = "text"

\* C13: a run makes at most max_retries provider calls; while it is in the
\* loop every failure so far was retried and fewer than max_retries calls
\* are made, and each pass of the loop makes one call more or leaves the
\* loop, so the loop ends within max_retries passes; a run for which every
\* call raises an overload ends after max_retries calls with the overload
\* error shown; a run that failed stores no report, counts no usage and
\* shows no new report.
C13_RetryBounded ==
    /\ [](/\ run.calls <= max_retries
          /\ run.pc = "calling" => (run.calls = run.retry_count /\ run.calls < max_retries)
          /\ (LoopLeft /\ StartsWith(run.plan, Overloads(max_retries)))
                => (run.pc = "failed" /\ run.error = "overloaded" /\ run.calls = max_retries))
    /\ [][/\ (run.pc = "calling" /\ run' # run)
                => (run'.calls = run.calls + 1 \/ run'.pc # "calling")
          /\ (run.pc = "calling" /\ run'.pc = "failed")
                => (ss' = ss /\ page' = page /\ run'.error # "none")
          /\ run.pc = "failed" => (ss' = ss /\ page' = page)]_vars

C13_Witness ==
    /\ run.pc = "failed" /\ run.error = "overloaded" /\ run.calls = max_retries
    /\ StartsWith(run.plan, Overloads(max_retries))
    /\ ss.generated_report = "text" /\ ss.usage_data.count = 1

\* the outcomes of the calls a run has made
Consumed == SubSeq(run.plan, 1, Len(run.plan) - Len(run.script))

Fatal(w) == rq[w].op = "generate" /\ rq[w].outcome \in ProviderRaises

\* C14 as stated: a request that hit a provider failure other than a
\* transient overload has made exactly one provider call.
C14_FatalAfterOneCall ==
    /\ (run.pc = "failed" /\ run.error = "api_error") => run.calls = 1
    /\ \A w \in Workers : Fatal(w) => rq[w].calls = 1

\* C14 as amended: a provider failure other than a transient overload is the
\* last provider call of its request and is surfaced at once: every call
\* before it raised an overload, no call follows it, and a request whose
\* first call fails in this way has made exactly one call.  The Flask backend
\* calls the provider once per request whatever the call raises.
C14_FatalNotRetried ==
    /\ run.pc = "calling" => Consumed = Overloads(run.calls)
    /\ (run.pc = "failed" /\ run.error \in {"api_error", "unexpected"})
          => /\ run.calls = Len(Consumed)
             /\ Consumed = Overloads(run.calls - 1) \o << run.error >>
             /\ run.plan[1] = run.error => run.calls = 1
    /\ \A w \in Workers : Fatal(w) => (rq[w].calls = 1 /\ rq[w].pc = "done"
                                          /\ rq[w].status \in {429, 500})

C14_Witness ==
    /\ run.pc = "failed" /\ run.error = "api_error"
    /\ run.plan = << "overloaded", "api_error", "ok" >> /\ run.calls = 2

(***************************************************************************)
(* Properties of the request pipeline, checked under FlaskSpec             *)
(***************************************************************************)
Answered(w) == rq[w].op = "generate" /\ rq[w].pc = "done"

\* the status code that the failure class of an answered request calls for
ClassStatus(w) ==
    IF ~rq[w].counted THEN 429
    ELSE IF ~rq[w].req.isobj THEN 500
    ELSE IF ~validate_input(rq[w].req).ok THEN 400
    ELSE IF rq[w].budget = "exceeded" THEN 503
    ELSE IF rq[w].outcome \in ProviderRaises THEN 502
    ELSE IF rq[w].outcome = "no_text" THEN 500
    ELSE 200

\* C15: every answered request carries the status code of its class: 429
\* when the limiter turned it away, 400 when validation failed, 503 when the
\* budget check failed, 502 when the provider API raised an error, 500 on an
\* internal error, 200 otherwise.
C15_StatusOfEachClass ==
    \A w \in Workers : Answered(w) => rq[w].status = ClassStatus(w)

\* the place of a stage in the order validation, client rate limiting, budget
\* check, prompt composition, provider call, cost computation, ledger record
Rank(stage) ==
    CASE stage = "validation" -> 1
      [] stage = "rate_limit" -> 2
      [] stage = "budget" -> 3
      [] stage = "compose" -> 4
      [] stage = "provider" -> 5
      [] stage = "cost" -> 6
      [] stage = "record" -> 7

\* C16: the stages a request has passed follow the order validation, rate
\* limiting, budget check, prompt composition, provider call, cost
\* computation, ledger record; a request that failed validation has not been
\* counted by the rate limiter; a ledger record follows a provider call.
C16_PipelineOrder ==
    \A w \in Workers :
        /\ \A i, j \in 1..Len(rq[w].stages) :
              i < j => Rank(rq[w].stages[i]) < Rank(rq[w].stages[j])
        /\ Rejected(w) => ~rq[w].counted
        /\ rq[w].writes > 0 => rq[w].calls > 0

\* the ledger of the current month as the file holds it
CurrentLedger == load_cost_data(file, clock)

\* C17: log_request loads the ledger of the current month, and its save
\* writes that ledger with exactly one entry more, placed at the end and
\* carrying the input tokens, output tokens and cost it was passed, with the
\* earlier entries in their order and total_cost raised by the cost; the
\* total it returns is the total_cost of the record it wrote.  When no other
\* save and no month change came between its load and its save, the ledger
\* in the file grows by exactly this entry.
C17_LogRequestContract ==
    [][\A w \in Workers :
          /\ LoadStep(w) => rq'[w].data = CurrentLedger
          /\ SaveStep(w) =>
                LET before == rq[w].data
                    n == Len(before.requests)
                    last == file'.requests[n + 1]
                IN  /\ file'.exists /\ file'.month = before.month
                    /\ Len(file'.requests) = n + 1
                    /\ SubSeq(file'.requests, 1, n) = before.requests
                    /\ last.input_tokens = rq[w].input_tokens
                    /\ last.output_tokens = rq[w].output_tokens
                    /\ last.cost = rq[w].cost
                    /\ file'.total_cost = before.total_cost + rq[w].cost
                    /\ rq'[w].body.total_cost = file'.total_cost
                    /\ rq'[w].writes = rq[w].writes + 1
                    /\ before = CurrentLedger
                          => /\ SubSeq(file'.requests, 1, n) = CurrentLedger.requests
                             /\ file'.total_cost = CurrentLedger.total_cost + rq[w].cost]_vars

C17_Witness ==
    \E w \in Workers :
        /\ Answered(w) /\ rq[w].status = 200 /\ rq[w].writes = 1
        /\ file = rq[w].data /\ Len(file.requests) = 2
        /\ file.requests[2].input_tokens = 2000
        /\ file.requests[1].input_tokens = 1000

\* C18: the save of a successful request raises total_cost by the cost of
\* the tokens the provider reported, input tokens at COST_PER_1K_INPUT_TOKENS
\* and output tokens at COST_PER_1K_OUTPUT_TOKENS per 1000; the cost is
\* positive; the total in the response is the new total; and when no other
\* save and no month change came between the load and the save of the
\* request, the total of the current month in the file rises by that cost.
C18_CostIncrease ==
    [][\A w \in Workers :
          SaveStep(w) =>
              LET cost == file'.total_cost - rq[w].data.total_cost
              IN  /\ 1000 * cost = rq[w].input_tokens * COST_PER_1K_INPUT_TOKENS
                                    + rq[w].output_tokens * COST_PER_1K_OUTPUT_TOKENS
                  /\ cost > 0
                  /\ rq'[w].status = 200
                  /\ rq'[w].body.total_cost = file'.total_cost
                  /\ rq[w].data = CurrentLedger
                        => file'.total_cost = CurrentMonthTotal + cost]_vars

C18_Witness ==
    \E w \in Workers :
        /\ Answered(w) /\ rq[w].status = 200
        /\ rq[w].input_tokens = 2000 /\ rq[w].output_tokens = 1000
        /\ rq[w].body.total_cost = 21000 + 6000
        /\ file.total_cost = 21000 + 6000

\* the three conditions on a request: the query has at most MAX_QUERY_LENGTH
\* characters, every context field has at most MAX_CONTEXT_LENGTH, and the
\* query has a character that is no whitespace
WellFormed(r) ==
    /\ r.query.lead + r.query.body + r.query.trail <= MAX_QUERY_LENGTH
    /\ \A k \in 1..Len(r.context) : r.context[k] <= MAX_CONTEXT_LENGTH
    /\ r.query.body > 0

ValidateStep(w) == rq[w].pc = "validate" /\ rq'[w].pc # "validate"

\* C19: validate_input accepts a request if and only if its query has at
\* most MAX_QUERY_LENGTH characters, each of its context fields has at most
\* MAX_CONTEXT_LENGTH characters and its query has a character that is no
\* whitespace; a request it does not accept is answered 400 with a reason;
\* validating changes neither the cost file nor the limiter's count.
C19_ValidateInputIff ==
    [][\A w \in Workers :
          (ValidateStep(w) /\ rq'[w].req.isobj)
              => /\ validate_input(rq'[w].req).ok <=> WellFormed(rq'[w].req)
                 /\ rq'[w].pc = "budget" <=> WellFormed(rq'[w].req)
                 /\ ~WellFormed(rq'[w].req)
                       => /\ rq'[w].pc = "done" /\ rq'[w].status = 400
                          /\ validate_input(rq'[w].req).msg # "none"
                 /\ file' = file /\ hits' = hits /\ expected' = expected]_vars

C19_Witness ==
    \E w \in Workers :
        /\ Answered(w) /\ rq[w].status = 400
        /\ rq[w].req.query = Query(3, 0, 0)
        /\ validate_input(rq[w].req).msg = "query_empty"

\* C20: a request whose provider call failed has written nothing to the
\* ledger and has not been counted against its client's rate limit.
C20_NoMutationOnProviderFailure ==
    \A w \in Workers :
        (Answered(w) /\ rq[w].outcome \in ProviderRaises)
            => (rq[w].writes = 0 /\ ~rq[w].counted)


(***************************************************************************)
(* C21: a request counts against the rate limit only if it invoked the     *)
(* provider and the call succeeded.  Of every answered request that the    *)
(* limiter of line 135 counted, the provider was called and returned, and  *)
(* the request was answered 200; a request refused by validation, by the   *)
(* budget gate or failed by the provider leaves the count as it was.       *)
(***************************************************************************)
Succeeded(w) ==
    /\ rq[w].calls > 0
    /\ rq[w].outcome = "text"
    /\ rq[w].status = 200

C21_OnlySuccessCounts ==
    \A w \in Workers :
        (Answered(w) /\ rq[w].counted) => Succeeded(w)


(***************************************************************************)
(* C23: every log entry of the persisted cost record carries a timestamp   *)
(* whose year and month equal the record's month key, also when the month  *)
(* changes while log_request runs, between its load (line 96) and its      *)
(* stamp and save (lines 99-108).                                          *)
(***************************************************************************)
C23_EntriesInRecordMonth ==
    file.exists =>
        \A k \in 1..Len(file.requests) : file.requests[k].timestamp = file.month


(***************************************************************************)
(* C24: with generate requests handled one at a time, the month's total    *)
(* never reaches the cap plus the cost of the request recorded last, and a *)
(* request is about to call the provider only while the total of the       *)
(* current month is strictly below MONTHLY_BUDGET_CAP.                     *)
(***************************************************************************)
LastCost == file.requests[Len(file.requests)].cost

C24_OvershootBounded ==
    /\ (file.exists /\ Len(file.requests) > 0)
          => file.total_cost < MONTHLY_BUDGET_CAP + LastCost
    /\ \A w \in Workers :
          rq[w].pc = "call" => CurrentMonthTotal < MONTHLY_BUDGET_CAP

\* a recorded request has carried the total past the cap
C24_Witness ==
    \E w \in Workers :
        /\ Answered(w) /\ rq[w].status = 200
        /\ file.exists /\ file.month = clock
        /\ file.total_cost > MONTHLY_BUDGET_CAP
        /\ LastCost = rq[w].cost


(***************************************************************************)
(* C25: check_budget, health_check and get_costs never write the persisted *)
(* ledger: the cost file is the same after each of them (and after the     *)
(* budget-denied answer) as before, and every step that changes the file   *)
(* is the save of a log_request.                                           *)
(***************************************************************************)
C25_ReadsLeaveLedger ==
    [][/\ \A w \in Workers : (ReadStep(w) \/ DeniedStep(w)) => file' = file
       /\ file' # file => \E w \in Workers : SaveStep(w)]_vars

\* get_costs has answered from a record of an older month, a request has
\* passed check_budget, and the record of the older month is still on disk
C25_Witness ==
    \E w, v \in Workers :
        /\ rq[w].op = "costs" /\ rq[w].pc = "done"
        /\ rq[w].body = FreshLedger(1)
        /\ rq[v].pc = "call" /\ rq[v].budget = "ok"
        /\ clock = 1 /\ file = Ledger(0, 10000000, << Entry(0, 1000, 200, 10000000) >>)


(***************************************************************************)
(* C26: every row that log_query writes has rate_limit_hit = false: a run  *)
(* that has logged its query found the session below the ceiling when      *)
(* log_query called check_rate_limit.                                      *)
(***************************************************************************)
C26_NoRateLimitHitLogged ==
    run.pc = "done" => ~run.rate_limit_hit


(***************************************************************************)
(* C27: workflow_step is always 1, 2 or 3; a run that calls the provider   *)
(* (is in the retry loop or past it) runs at step 3 with a query that is   *)
(* not blank after strip(); and the session is at step 2 or 3 only with an *)
(* initial query that is not blank.                                        *)
(***************************************************************************)
Generating == run.pc # "idle"

AnotherStep == ss.generated_report # "none" /\ ss'.generated_report = "none"

\* what the handler clears
StartedOver(s) ==
    /\ s.workflow_step = 1
    /\ s.initial_query = Query(0, 0, 0)
    /\ ~s.clarifying_answers
    /\ s.generated_report = "none" /\ s.report_query = "none"
    /\ ~s.feedback_given /\ ~s.show_feedback_form

\* C28 as stated: pressing 'Generate Another Report' sets workflow_step to
\* 1, clears the initial query, the clarifying answers, the stored report and
\* the feedback flags, and leaves browser_id and usage_data (count and window
\* start) unchanged.
C28_StartOverKeepsUsage ==
    [][AnotherStep => /\ StartedOver(ss')
                      /\ ss'.browser_id = ss.browser_id
                      /\ ss'.usage_data = ss.usage_data]_vars

\* C28 as amended: pressing 'Generate Another Report' sets workflow_step to
\* 1, clears the initial query, the clarifying answers, the stored report and
\* the feedback flags, leaves browser_id unchanged, and leaves usage_data
\* unchanged unless the press is made at step 3, where the run first calls
\* check_rate_limit: usage_data is then what get_usage_data returns, which
\* differs from before only when the 30-day window has expired.
C28_StartOverKeepsWindow ==
    [][AnotherStep
          => /\ StartedOver(ss')
             /\ ss'.browser_id = ss.browser_id
             /\ ss'.usage_data = IF ss.workflow_step = 3
                                   THEN get_usage_data(ss.usage_data, now)
                                   ELSE ss.usage_data
             /\ (now <= ss.usage_data.reset_date + WINDOW_DAYS)
                    => ss'.usage_data = ss.usage_data]_vars

\* the session has started over after its third report of the window: the
\* count is still 3
C28_Witness ==
    /\ StartedOver(ss) /\ run.pc = "idle" /\ page.step = 1
    /\ ss.browser_id = NewBrowserId
    /\ ss.usage_data.exists /\ ss.usage_data.count = MAX_QUERIES_PER_MONTH


(***************************************************************************)
(* C29.  What each message that validate_report_quality reports costs, by  *)
(* lines 986-1057: 15 for each missing section, 20 for no tools, 5 for few *)
(* tools, 10 for missing URLs, 10 for a financial analysis without costs,  *)
(* 5 for each other warning but that of fewer than three phases, which is  *)
(* free.                                                                   *)
(***************************************************************************)
Deduction(m) ==
    CASE m.msg = "Missing critical sections" -> 15 * m.n
      [] m.msg = "No tools recommended" -> 20
      [] m.msg = "tools recommended" -> 5
      [] m.msg = "tools missing URLs" -> 10
      [] m.msg = "Executive Summary too brief" -> 5
      [] m.msg = "Financial Analysis missing specific costs" -> 10
      [] m.msg = "Financial Analysis missing monthly breakdown" -> 5
      [] m.msg = "Implementation Roadmap missing phase structure" -> 5
      [] m.msg = "phases" -> 0
      [] m.msg = "Risk Assessment missing mitigation strategies" -> 5

RECURSIVE Deductions(_)
Deductions(msgs) ==
    IF msgs = << >> THEN 0 ELSE Deduction(Head(msgs)) + Deductions(Tail(msgs))

QualityShown == page.report_shown /\ "quality" \in DOMAIN page

\* C29: for every report text the score of validate_report_quality lies in
\* 0..100 and is 100 less the deductions of the issues and warnings it
\* reports, or 0 when these exceed 100, and a score of 100 comes with no
\* issue and no warning that reduces the score.
C29_ScoreIsHundredLessDeductions ==
    QualityShown =>
        LET q == page.quality
            d == Deductions(q.issues \o q.warnings)
        IN  /\ q = validate_report_quality(ss.generated_report)
            /\ q.score \in 0..100
            /\ q.score = IF d > 100 THEN 0 ELSE 100 - d
            /\ q.score = 100
                  => /\ q.issues = << >>
                     /\ \A k \in 1..Len(q.warnings) : Deduction(q.warnings[k]) = 0

\* a report with the full score and the one warning that costs nothing
C29_Witness ==
    /\ QualityShown
    /\ page.quality.score = 100
    /\ page.quality.warnings = << Message("phases", 2) >>

============================================================================
